---- MODULE Spec2Model ----
(***************************************************************************)
(* Model of src/pages/HealthReport.tsx: the HealthReport page component.   *)
(* The component state (report, patientData, loading), the mount effect    *)
(* with its fetch / json / then / catch chain, the render gates and the    *)
(* synchronous jsPDF export (generatePDF / addSection).                    *)
(*                                                                         *)
(* JavaScript values are tagged records, so that null, undefined, strings  *)
(* and numbers can be told apart the way the ?? and ?. operators do.       *)
(***************************************************************************)
EXTENDS Integers, Sequences, FiniteSets, TLC

\* ------------------------------------------------------------------ bounds
\* Longest array the data endpoint returns.
MaxRecords == 2
\* Largest risk score a fetched record carries.
MaxScore == 100
\* Calls of generatePDF in one run.
MaxExports == 2
\* Longest list of a view-model handed to the exporter on its own (ExportSpec).
MaxItems == 5

\* ------------------------------------------------------- program constants
\* Risk tier thresholds of the className expression.
HighThreshold == 70
MediumThreshold == 40
\* generatePDF: the cursor's start, the step after a line, the gap after the
\* title, the height of the four-field block, the two left margins.
TitleY == 20
TitleGap == 20
FieldBlock == 50
LineHeight == 10
SectionGap == 10
MarginX == 20
BulletX == 25
TitleFont == 20
BodyFont == 12
HeadingFont == 14

\* ---------------------------------------------------------------- JS values
Undefined == [tag |-> "undefined"]
Null == [tag |-> "null"]
Str(s) == [tag |-> "str", v |-> s]
Num(n) == [tag |-> "num", v |-> n]
Obj(f) == [tag |-> "obj", f |-> f]

\* v == null || v === undefined
isNullish(v) == v.tag \in {"null", "undefined"}

\* Mutant of nullish: a || b, which also replaces '' and 0.
nullishOr(a, b) ==
    IF isNullish(a) \/ (a.tag = "str" /\ a.v = "") \/ (a.tag = "num" /\ a.v = 0)
    THEN b ELSE a

\* a ?? b
nullish(a, b) == IF isNullish(a) THEN b ELSE a

\* Mutant of falsy: a test against null only (patientId === null).
falsyNullOnly(v) == v.tag = "null"

\* !v for the values the page tests: null, undefined, '' and 0 are falsy.
falsy(v) ==
    \/ isNullish(v)
    \/ (v.tag = "str" /\ v.v = "")
    \/ (v.tag = "num" /\ v.v = 0)

\* patient?.field : undefined when patient is nullish, else the property
\* (undefined when the object has no such property).
optGet(p, field) ==
    IF isNullish(p) THEN Undefined
    ELSE IF p.tag = "obj" /\ field \in DOMAIN p.f THEN p.f[field]
    ELSE Undefined

\* `${v}` in a template literal.
toStr(v) ==
    CASE v.tag = "str" -> v.v
      [] v.tag = "num" -> ToString(v.v)
      [] v.tag = "null" -> "null"
      [] OTHER -> "undefined"

\* (n).toFixed(1) of an integral number.
toFixed1(v) == ToString(v.v) \o ".0"

\* ------------------------------------------------------------ input domains
Ids == {"P001", "P002"}
\* sessionStorage.getItem('patientId'): null when the key is absent.
StorageValues == {Null, Str("")} \cup {Str(i) : i \in Ids}

Scores == {0, MediumThreshold, MediumThreshold + 1, HighThreshold, HighThreshold + 1, MaxScore}
NameValues == {Undefined, Null, Str(""), Str("Asha")}
AgeValues == {Undefined, Num(0), Num(45)}
DateValues == {Undefined, Null, Str("2024-01-15")}
ScoreValues == {Undefined, Null} \cup {Num(s) : s \in Scores}

PatientObjects ==
    {Obj([Name |-> n, Age |-> a, Report_Date |-> d, riskScore |-> r]) :
        n \in NameValues, a \in AgeValues, d \in DateValues, r \in ScoreValues}

\* An element of the returned array: a record, or a JSON null.
Elements == PatientObjects \cup {Null}
OtherRecord == Obj([Name |-> Str("Other"), Age |-> Num(1), Report_Date |-> Str("2020-02-02"), riskScore |-> Num(MaxScore)])

\* The arrays res.json() resolves with: any first element, fixed later ones.
Arrays ==
    {<<>>} \cup
    {<<e>> \o [i \in 1..k |-> OtherRecord] : e \in Elements, k \in 0..(MaxRecords - 1)}

\* data[0]
first(data) == IF Len(data) = 0 THEN Undefined ELSE data[1]

\* ------------------------------------------------------------------- state
VARIABLES
    sessionStorage,  \* value of the 'patientId' key
    pc,              \* position of the mount effect's promise chain
    mounted,         \* the component instance is in the tree
    report,          \* useState<HealthReportData | null>
    patientData,     \* useState<Patient | null>
    loading,         \* useState(true)
    patientId,       \* the effect's local const patientId
    fetches,         \* URLs handed to fetch, in order
    navigations,     \* targets handed to navigate, in order
    errorLog,        \* console.error calls, in order
    received,        \* what res.json() resolved with: kind and array length
    staleUpdates,    \* setState calls made while the component was unmounted
    pdfLog,          \* jsPDF calls of the latest generatePDF call
    yPos,            \* generatePDF's cursor when it returned
    pdfCalls,        \* calls of generatePDF
    saves            \* doc.save calls

vars == <<sessionStorage, pc, mounted, report, patientData, loading, patientId,
          fetches, navigations, errorLog, received, staleUpdates, pdfLog, yPos,
          pdfCalls, saves>>

pdfVars == <<pdfLog, yPos, pdfCalls, saves>>
loaderVars == <<pc, report, patientData, loading, patientId, fetches,
                navigations, errorLog, received, staleUpdates>>

\* ------------------------------------------------------------ report loader
keyFindings ==
    << "Elevated bilirubin levels (2.5 mg/dL)",
       "Normal albumin levels",
       "Platelet count within range",
       "Slightly elevated prothrombin time" >>

recommendations ==
    << "Regular monitoring of liver function tests",
       "Maintain healthy diet and exercise routine",
       "Avoid alcohol consumption",
       "Schedule follow-up in 3 months" >>

nextSteps ==
    << "Book appointment with hepatologist",
       "Complete follow-up blood tests",
       "Join liver health support group",
       "Download patient education materials" >>

\* The object handed to setReport.
buildReport(patient) ==
    [ tag |-> "obj",
      patientName |-> nullish(optGet(patient, "Name"), Str("Unknown")),
      age |-> nullish(optGet(patient, "Age"), Num(0)),
      assessmentDate |-> nullish(optGet(patient, "Report_Date"), Str("")),
      riskScore |-> nullish(optGet(patient, "riskScore"), Num(0)),
      keyFindings |-> keyFindings,
      recommendations |-> recommendations,
      nextSteps |-> nextSteps ]

fetchUrl(id) == "http://localhost:3001/liverData/?Patient_ID=" \o id

\* n setState calls: they count as stale when the component is unmounted.
stale(n) == IF mounted THEN staleUpdates ELSE staleUpdates + n

Init ==
    /\ sessionStorage \in StorageValues
    /\ pc = "init"
    /\ mounted = TRUE
    /\ report = Null
    /\ patientData = Null
    /\ loading = TRUE
    /\ patientId = Undefined
    /\ fetches = <<>>
    /\ navigations = <<>>
    /\ errorLog = <<>>
    /\ received = [kind |-> "none", len |-> 0]
    /\ staleUpdates = 0
    /\ pdfLog = <<>>
    /\ yPos = 0
    /\ pdfCalls = 0
    /\ saves = 0

\* The effect body: read the identifier, redirect or issue the fetch.
MountEffect ==
    /\ pc = "init"
    /\ mounted
    /\ patientId' = sessionStorage
    /\ IF falsy(sessionStorage)
       THEN /\ navigations' = Append(navigations, "/login")
            /\ pc' = "redirected"
            /\ UNCHANGED fetches
       ELSE /\ fetches' = Append(fetches, fetchUrl(sessionStorage.v))
            /\ pc' = "fetching"
            /\ UNCHANGED navigations
    /\ UNCHANGED <<sessionStorage, mounted, report, patientData, loading,
                   errorLog, received, staleUpdates>>
    /\ UNCHANGED pdfVars

\* Mutant of CatchHandler: the error is logged and loading is left alone.
CatchHandlerKeepsLoading(err) ==
    /\ errorLog' = Append(errorLog, err)
    /\ loading' = loading
    /\ staleUpdates' = staleUpdates
    /\ pc' = "failed"

\* .catch((err) => { console.error(err); setLoading(false); })
CatchHandler(err) ==
    /\ errorLog' = Append(errorLog, err)
    /\ loading' = FALSE
    /\ staleUpdates' = stale(1)
    /\ pc' = "failed"

\* fetch resolves with a response; res.json() starts reading the body.
FetchResolves ==
    /\ pc = "fetching"
    /\ pc' = "parsing"
    /\ UNCHANGED <<sessionStorage, mounted, report, patientData, loading,
                   patientId, fetches, navigations, errorLog, received,
                   staleUpdates>>
    /\ UNCHANGED pdfVars

\* fetch rejects (network failure): both then handlers are skipped.
FetchRejects ==
    /\ pc = "fetching"
    /\ CatchHandler("TypeError: Failed to fetch")
    /\ UNCHANGED <<sessionStorage, mounted, report, patientData, patientId,
                   fetches, navigations, received>>
    /\ UNCHANGED pdfVars

\* res.json() rejects: the body is not JSON.
JsonRejects ==
    /\ pc = "parsing"
    /\ CatchHandler("SyntaxError: Unexpected token")
    /\ UNCHANGED <<sessionStorage, mounted, report, patientData, patientId,
                   fetches, navigations, received>>
    /\ UNCHANGED pdfVars

\* Mutant of ThenHandler: setLoading(false) is forgotten.
ThenHandlerKeepsLoading(data) ==
    /\ received' = [kind |-> "array", len |-> Len(data)]
    /\ patientData' = first(data)
    /\ report' = buildReport(first(data))
    /\ loading' = loading
    /\ staleUpdates' = stale(2)
    /\ pc' = "done"
    /\ UNCHANGED errorLog

\* Mutant of ThenHandler: a mount flag is checked before any setState.
ThenHandlerMountGuard(data) ==
    /\ received' = [kind |-> "array", len |-> Len(data)]
    /\ IF mounted
       THEN /\ patientData' = first(data)
            /\ report' = buildReport(first(data))
            /\ loading' = FALSE
       ELSE UNCHANGED <<patientData, report, loading>>
    /\ staleUpdates' = staleUpdates
    /\ pc' = "done"
    /\ UNCHANGED errorLog

\* .then((data) => { ... }) on an array.
ThenHandler(data) ==
    /\ received' = [kind |-> "array", len |-> Len(data)]
    /\ patientData' = first(data)
    /\ report' = buildReport(first(data))
    /\ loading' = FALSE
    /\ staleUpdates' = stale(3)
    /\ pc' = "done"
    /\ UNCHANGED errorLog

\* res.json() resolves with an array.
JsonResolves ==
    /\ pc = "parsing"
    /\ \E data \in Arrays : ThenHandler(data)
    /\ UNCHANGED <<sessionStorage, mounted, patientId, fetches, navigations>>
    /\ UNCHANGED pdfVars

\* res.json() resolves with null: data[0] throws before any setState, and the
\* rejection reaches the catch handler.
JsonResolvesNull ==
    /\ pc = "parsing"
    /\ received' = [kind |-> "null", len |-> 0]
    /\ CatchHandler("TypeError: Cannot read properties of null")
    /\ UNCHANGED <<sessionStorage, mounted, report, patientData, patientId,
                   fetches, navigations>>
    /\ UNCHANGED pdfVars

\* The page is torn down. The effect returns no cleanup function: nothing of
\* the promise chain is cancelled.
Unmount ==
    /\ mounted
    /\ pc # "init"
    /\ mounted' = FALSE
    /\ UNCHANGED <<sessionStorage>>
    /\ UNCHANGED loaderVars
    /\ UNCHANGED pdfVars

\* Other code of the session sets, clears or removes the 'patientId' key.
SetSession ==
    /\ \E v \in StorageValues : v # sessionStorage /\ sessionStorage' = v
    /\ UNCHANGED mounted
    /\ UNCHANGED loaderVars
    /\ UNCHANGED pdfVars

\* ---------------------------------------------------------- report renderer
\* The component's return value: which of the three trees is rendered.
Render ==
    IF loading THEN "spinner"
    ELSE IF report = Null THEN "notFound"
    ELSE "report"

\* Mutant of riskClass: the upper boundary is inclusive (>= 70).
riskClassInclusive(patient) ==
    IF nullish(optGet(patient, "riskScore"), Num(0)).v >= HighThreshold THEN "text-red-600"
    ELSE IF nullish(optGet(patient, "riskScore"), Num(0)).v > MediumThreshold THEN "text-yellow-600"
    ELSE "text-green-600"

\* The className of the risk score paragraph.
riskClass(patient) ==
    IF nullish(optGet(patient, "riskScore"), Num(0)).v > HighThreshold THEN "text-red-600"
    ELSE IF nullish(optGet(patient, "riskScore"), Num(0)).v > MediumThreshold THEN "text-yellow-600"
    ELSE "text-green-600"

\* ------------------------------------------------------- document exporter
newOp == [op |-> "new"]
fontOp(n) == [op |-> "setFontSize", size |-> n]
textOp(s, x, y) == [op |-> "text", s |-> s, x |-> x, y |-> y]
saveOp(name) == [op |-> "save", name |-> name]

\* The bullet prefix of an item line (U+2022 and a space in the source).
Bullet == "* "

\* items.forEach((item) => { doc.text(Bullet + item, 25, yPos); yPos += 10; })
RECURSIVE forEachItem(_, _)
forEachItem(st, items) ==
    IF items = <<>> THEN st
    ELSE forEachItem(
            [doc |-> Append(st.doc, textOp(Bullet \o Head(items), BulletX, st.y)),
             y |-> st.y + LineHeight],
            Tail(items))

\* Mutant of addSection: the gap after the section is forgotten.
addSectionNoGap(st, title, items) ==
    LET heading == [doc |-> st.doc \o <<fontOp(HeadingFont), textOp(title, MarginX, st.y)>>,
                    y |-> st.y + LineHeight]
    IN forEachItem([doc |-> Append(heading.doc, fontOp(BodyFont)), y |-> heading.y], items)

\* addSection(title, items), on the exporter's doc and cursor.
addSection(st, title, items) ==
    LET heading == [doc |-> st.doc \o <<fontOp(HeadingFont), textOp(title, MarginX, st.y)>>,
                    y |-> st.y + LineHeight]
        body == forEachItem([doc |-> Append(heading.doc, fontOp(BodyFont)), y |-> heading.y], items)
    IN [doc |-> body.doc, y |-> body.y + SectionGap]

\* The title and the four labelled fields.
header(r) ==
    [doc |-> << newOp,
                fontOp(TitleFont),
                textOp("Liver Health Assessment Report", MarginX, TitleY),
                fontOp(BodyFont),
                textOp("Patient: " \o toStr(r.patientName), MarginX, TitleY + TitleGap),
                textOp("Age: " \o toStr(r.age), MarginX, TitleY + TitleGap + 10),
                textOp("Assessment Date: " \o toStr(r.assessmentDate), MarginX, TitleY + TitleGap + 20),
                textOp("Risk Score: " \o toFixed1(r.riskScore) \o "%", MarginX, TitleY + TitleGap + 30) >>,
     y |-> TitleY + TitleGap + FieldBlock]

\* sessionStorage.getItem('patientId') ?? 'report', in the file name.
fileName(stored) == "liver-health-report-" \o toStr(nullish(stored, Str("report"))) \o ".pdf"

\* The jsPDF calls of one export of view-model r, and the final cursor.
exportOf(r, stored) ==
    LET s1 == addSection(header(r), "Key Findings", r.keyFindings)
        s2 == addSection(s1, "Recommendations", r.recommendations)
        s3 == addSection(s2, "Next Steps", r.nextSteps)
    IN [doc |-> Append(s3.doc, saveOp(fileName(stored))), y |-> s3.y]

\* Mutant of generatePDF: the `if (!report) return` guard is missing, so the
\* document is created and titled before report.patientName throws.
generatePDFNoGuard ==
    /\ mounted
    /\ pdfCalls < MaxExports
    /\ pdfCalls' = pdfCalls + 1
    /\ IF report = Null
       THEN /\ pdfLog' = <<newOp, fontOp(TitleFont),
                           textOp("Liver Health Assessment Report", MarginX, TitleY),
                           fontOp(BodyFont)>>
            /\ yPos' = TitleY + TitleGap
            /\ UNCHANGED saves
       ELSE /\ pdfLog' = exportOf(report, sessionStorage).doc
            /\ yPos' = exportOf(report, sessionStorage).y
            /\ saves' = saves + 1
    /\ UNCHANGED <<sessionStorage, mounted>>
    /\ UNCHANGED loaderVars

\* generatePDF: called as a function, whatever the page shows (the Download
\* button that calls it is rendered only in the report view).
generatePDF ==
    /\ mounted
    /\ pdfCalls < MaxExports
    /\ pdfCalls' = pdfCalls + 1
    /\ IF report = Null
       THEN UNCHANGED <<pdfLog, yPos, saves>>
       ELSE /\ pdfLog' = exportOf(report, sessionStorage).doc
            /\ yPos' = exportOf(report, sessionStorage).y
            /\ saves' = saves + 1
    /\ UNCHANGED <<sessionStorage, mounted>>
    /\ UNCHANGED loaderVars

\* ----------------------------------------------------------- specifications
Next ==
    \/ MountEffect
    \/ FetchResolves
    \/ FetchRejects
    \/ JsonResolves
    \/ JsonResolvesNull
    \/ JsonRejects
    \/ Unmount
    \/ SetSession
    \/ generatePDF

Spec == Init /\ [][Next]_vars

\* The exporter on its own: any view-model whose three lists have up to
\* MaxItems entries, loaded and shown.
ItemLists == {[i \in 1..n |-> "item " \o ToString(i)] : n \in 0..MaxItems}

ExportReports ==
    {[ tag |-> "obj", patientName |-> Str("Asha"), age |-> Num(45),
       assessmentDate |-> Str("2024-01-15"), riskScore |-> Num(HighThreshold + 1),
       keyFindings |-> a, recommendations |-> b, nextSteps |-> c ] :
        a \in ItemLists, b \in ItemLists, c \in ItemLists}

ExportInit ==
    /\ sessionStorage \in StorageValues
    /\ pc = "done"
    /\ mounted = TRUE
    /\ report \in ExportReports
    /\ patientData = Null
    /\ loading = FALSE
    /\ patientId = Str("P001")
    /\ fetches = <<fetchUrl("P001")>>
    /\ navigations = <<>>
    /\ errorLog = <<>>
    /\ received = [kind |-> "array", len |-> 1]
    /\ staleUpdates = 0
    /\ pdfLog = <<>>
    /\ yPos = 0
    /\ pdfCalls = 0
    /\ saves = 0

ExportNext == generatePDF \/ SetSession

ExportSpec == ExportInit /\ [][ExportNext]_vars

\* ------------------------------------------------------- claims: the loader
\* What the 'patientId' key held when the effect ran: nothing (the key absent,
\* or the empty string).
activatedWithoutId == pc # "init" /\ (patientId = Null \/ patientId = Str(""))

\* C1: when the page is activated and session storage holds no 'patientId'
\* (absent or empty), the effect navigates to '/login' and no fetch is ever
\* issued, whatever happens afterwards (the key being set later included).
C1_NoIdNoFetch ==
    activatedWithoutId =>
        /\ fetches = <<>>
        /\ navigations = <<"/login">>
        /\ pc = "redirected"
        /\ received.kind = "none"

\* C1 witness: activated with an empty identifier, redirected, the key set to
\* a real identifier afterwards, the page torn down: still no fetch.
C1_Witness ==
    /\ patientId = Str("")
    /\ navigations = <<"/login">>
    /\ sessionStorage = Str("P001")
    /\ ~mounted
    /\ fetches = <<>>

\* C2 (as stated): in every reachable state the view-model is non-null if and
\* only if the fetch completed successfully with at least one record; an empty
\* array ends on the 'Report Not Found' screen.
C2_ReportIffRecordFound ==
    /\ (report # Null) <=> (pc = "done" /\ received.kind = "array" /\ received.len >= 1)
    /\ (pc = "done" /\ received.kind = "array" /\ received.len = 0) =>
            (loading = FALSE /\ report = Null /\ Render = "notFound")

\* C3: when the fetch fails (network rejection, or the body does not parse),
\* loading becomes false, report and patientData stay null so the 'Report Not
\* Found' screen is what renders, the error is logged once, and no second
\* fetch is issued.
C3_FailureEndsLoading ==
    /\ pc = "failed" =>
        /\ loading = FALSE
        /\ report = Null
        /\ patientData = Null
        /\ Render = "notFound"
        /\ Len(errorLog) = 1
        /\ Len(fetches) = 1
    /\ errorLog # <<>> => pc = "failed"

\* C3 witness: the body failed to parse, and the page has left the spinner.
C3_Witness ==
    /\ pc = "failed"
    /\ errorLog = <<"SyntaxError: Unexpected token">>
    /\ loading = FALSE
    /\ mounted

\* The field of the fetched first record, read without the model's helpers.
fieldOf(p, name) == IF p.tag = "obj" THEN p.f[name] ELSE Undefined
present(v) == v.tag # "null" /\ v.tag # "undefined"
orDefault(v, d) == IF present(v) THEN v ELSE d

\* C4: for every fetched first record (none at all included), each view-model
\* field is the record's field when present and the default when it is null
\* or undefined ('Unknown', 0, '', 0), field by field; the handler does not
\* throw; the three lists hold their four fixed strings.
C4_MappingDefaults ==
    received.kind = "array" =>
        /\ pc = "done"
        /\ errorLog = <<>>
        /\ report # Null
        /\ report.patientName = orDefault(fieldOf(patientData, "Name"), Str("Unknown"))
        /\ report.age = orDefault(fieldOf(patientData, "Age"), Num(0))
        /\ report.assessmentDate = orDefault(fieldOf(patientData, "Report_Date"), Str(""))
        /\ report.riskScore = orDefault(fieldOf(patientData, "riskScore"), Num(0))
        /\ Len(report.keyFindings) = 4 /\ report.keyFindings = keyFindings
        /\ Len(report.recommendations) = 4 /\ report.recommendations = recommendations
        /\ Len(report.nextSteps) = 4 /\ report.nextSteps = nextSteps
        /\ report.keyFindings[1] = "Elevated bilirubin levels (2.5 mg/dL)"
        /\ report.recommendations[4] = "Schedule follow-up in 3 months"
        /\ report.nextSteps[1] = "Book appointment with hepatologist"

\* C4 witness: a record with an empty name (present), no age, a null date and
\* a score: the name and the score are kept, the other two are defaulted.
C4_Witness ==
    /\ pc = "done"
    /\ patientData = Obj([Name |-> Str(""), Age |-> Undefined, Report_Date |-> Null, riskScore |-> Num(71)])
    /\ report.patientName = Str("")
    /\ report.age = Num(0)
    /\ report.assessmentDate = Str("")
    /\ report.riskScore = Num(71)

\* The risk score the renderer classifies: the record's, 0 when missing.
shownScore == orDefault(fieldOf(patientData, "riskScore"), Num(0)).v

\* C5: the colour tier is a total three-way classification of the record's
\* risk score (0 when missing): > 70 red, 40 < score <= 70 yellow, <= 40
\* green; 71 red, 70 and 41 yellow, 40 and 0 green.
C5_RiskTier ==
    Render = "report" =>
        /\ riskClass(patientData) \in {"text-red-600", "text-yellow-600", "text-green-600"}
        /\ (shownScore > 70) <=> (riskClass(patientData) = "text-red-600")
        /\ (40 < shownScore /\ shownScore <= 70) <=> (riskClass(patientData) = "text-yellow-600")
        /\ (shownScore <= 40) <=> (riskClass(patientData) = "text-green-600")
        /\ shownScore = 71 => riskClass(patientData) = "text-red-600"
        /\ shownScore \in {70, 41} => riskClass(patientData) = "text-yellow-600"
        /\ shownScore \in {40, 0} => riskClass(patientData) = "text-green-600"

\* C5 witness: the report view of a record whose score is exactly 70.
C5_Witness ==
    /\ Render = "report"
    /\ fieldOf(patientData, "riskScore") = Num(70)
    /\ riskClass(patientData) = "text-yellow-600"

\* ----------------------------------------------------- claims: the exporter
\* C6: generatePDF called while no view-model is loaded (still loading, fetch
\* failed, redirected) is a no-op: no document, no text, no save; so a save
\* happens only in a state whose view-model is non-null.
C6_ExportNoOpWithoutReport ==
    [][ /\ (report = Null => (pdfLog' = pdfLog /\ saves' = saves /\ yPos' = yPos))
        /\ (saves' # saves => (report # Null /\ report' = report)) ]_vars

\* C6 witness: generatePDF has been called on the 'Report Not Found' page
\* after a failed fetch, and nothing was written.
C6_Witness ==
    /\ pdfCalls >= 1
    /\ pc = "failed"
    /\ report = Null
    /\ pdfLog = <<>>
    /\ saves = 0

\* The text lines of a jsPDF call log, and their strings.
textOps(log) == SelectSeq(log, LAMBDA o : o.op = "text")
strings(ops) == [i \in 1..Len(ops) |-> ops[i].s]
bulleted(items) == [i \in 1..Len(items) |-> "* " \o items[i]]

\* What an export of view-model r has to write, in order.
expectedLines(r) ==
    << "Liver Health Assessment Report",
       "Patient: " \o toStr(r.patientName),
       "Age: " \o toStr(r.age),
       "Assessment Date: " \o toStr(r.assessmentDate),
       "Risk Score: " \o toFixed1(r.riskScore) \o "%" >>
    \o <<"Key Findings">> \o bulleted(r.keyFindings)
    \o <<"Recommendations">> \o bulleted(r.recommendations)
    \o <<"Next Steps">> \o bulleted(r.nextSteps)

\* The log is one document: created first, saved once, last.
oneSaveLast(log) ==
    /\ log[1].op = "new"
    /\ log[Len(log)].op = "save"
    /\ Cardinality({i \in 1..Len(log) : log[i].op = "save"}) = 1
    /\ \A i \in 1..Len(log) : log[i].op \in {"new", "setFontSize", "text", "save"}

\* C7 (as stated): every export with a loaded view-model writes the title, the
\* four fields, then the three headed lists in order, then saves once, last,
\* as 'liver-health-report-<id>.pdf' for the identifier the session holds at
\* that moment, or as 'liver-health-report-report.pdf' when the session holds
\* no identifier (the key absent or empty, as for the mount guard).
C7_ExportOrderAndName ==
    [][ saves' # saves =>
          /\ oneSaveLast(pdfLog')
          /\ strings(textOps(pdfLog')) = expectedLines(report)
          /\ pdfLog'[Len(pdfLog')].name =
                IF sessionStorage = Null \/ sessionStorage = Str("")
                THEN "liver-health-report-report.pdf"
                ELSE "liver-health-report-" \o sessionStorage.v \o ".pdf" ]_vars

\* The same with "no identifier" read as the key being absent only: the order
\* of the lines and the single final save, with the empty identifier used
\* as it is.
ExportOrderAndNameKeyAbsent ==
    [][ saves' # saves =>
          /\ oneSaveLast(pdfLog')
          /\ strings(textOps(pdfLog')) = expectedLines(report)
          /\ pdfLog'[Len(pdfLog')].name =
                IF sessionStorage = Null
                THEN "liver-health-report-report.pdf"
                ELSE "liver-health-report-" \o sessionStorage.v \o ".pdf" ]_vars

\* The y positions of the text lines of a log.
ys(log) == [i \in 1..Len(textOps(log)) |-> textOps(log)[i].y]

\* C8: in an export the cursor only grows: title at 20, fields at 40, 50, 60,
\* 70, first heading at 90, each bullet 10 below the line before it, each
\* later heading 20 below the last line of the section before it; no two lines
\* share a y; for lists of lengths a, b, c the cursor ends at
\* 90 + (20+10a) + (20+10b) + (20+10c); no page break, whatever the lengths.
C8_CursorPositions ==
    saves > 0 =>
        LET t == textOps(pdfLog)
            y == ys(pdfLog)
            a == Len(report.keyFindings)
            b == Len(report.recommendations)
            c == Len(report.nextSteps)
        IN /\ Len(t) = 8 + a + b + c
           /\ y[1] = 20
           /\ <<y[2], y[3], y[4], y[5]>> = <<40, 50, 60, 70>>
           /\ y[6] = 90
           /\ t[6].s = "Key Findings" /\ t[7 + a].s = "Recommendations"
           /\ t[8 + a + b].s = "Next Steps"
           /\ \A i \in 7..Len(t) :
                IF i \in {7 + a, 8 + a + b}
                THEN y[i] = y[i - 1] + 20
                ELSE y[i] = y[i - 1] + 10
           /\ \A i, j \in 1..Len(t) : i < j => y[i] < y[j]
           /\ yPos = 90 + (20 + 10 * a) + (20 + 10 * b) + (20 + 10 * c)
           /\ \A i \in 1..Len(pdfLog) : pdfLog[i].op \in {"new", "setFontSize", "text", "save"}

\* C8 witness: an export of lists of lengths 0, 5 and 3: the second heading is
\* 20 below the first, and the cursor ends at 230.
C8_Witness ==
    /\ saves > 0
    /\ Len(report.keyFindings) = 0
    /\ Len(report.recommendations) = 5
    /\ Len(report.nextSteps) = 3
    /\ ys(pdfLog)[7] = 110
    /\ yPos = 230

\* ---------------------------------------------------- claims: the lifecycle
\* C9: the page starts in loading; one activation with an identifier issues
\* exactly one fetch; the first response or failure moves the page to found
\* (report non-null) or not_found (report null); both are terminal: loading
\* never becomes true again, found and not_found never turn into each other,
\* and the view-model is never replaced, whatever renders and exports follow.
C9_Lifecycle ==
    /\ [](/\ pc \in {"init", "fetching", "parsing"} => (loading /\ report = Null)
          /\ pc \in {"done", "failed"} => (~loading /\ Len(fetches) = 1)
          /\ pc \in {"fetching", "parsing"} => Len(fetches) = 1
          /\ pc = "done" => Render = "report"
          /\ pc = "failed" => Render = "notFound"
          /\ Len(fetches) <= 1)
    /\ [][ /\ (~loading => (~loading' /\ report' = report /\ Render' = Render))
           /\ (report # Null => report' = report)
           /\ Len(fetches') >= Len(fetches) ]_vars

\* C9 witness: found, exported to the bound, then torn down: still found.
C9_Witness ==
    /\ pc = "done"
    /\ report # Null
    /\ ~loading
    /\ pdfCalls = 2
    /\ ~mounted

\* C10: the fetch is not cancelled by teardown and there is no mount guard:
\* when the page is torn down while the fetch or the body read is pending, the
\* response can still arrive, and its handler performs all of its state
\* updates (setPatientData, setReport, setLoading; setLoading for a failure)
\* on the unmounted component.
C10_StaleHandlerRuns ==
    /\ []((~mounted /\ pc = "fetching") => (ENABLED FetchResolves /\ ENABLED FetchRejects))
    /\ []((~mounted /\ pc = "parsing") => (ENABLED JsonResolves /\ ENABLED JsonRejects))
    /\ [][ /\ (~mounted /\ pc' = "done" /\ pc # "done") =>
                (/\ staleUpdates' = staleUpdates + 3
                 /\ report' # Null /\ loading /\ ~loading')
           /\ (~mounted /\ pc' = "failed" /\ pc # "failed") =>
                (staleUpdates' = staleUpdates + 1 /\ loading /\ ~loading') ]_vars

\* C10 witness: torn down before the response; the then handler has since
\* made its three state updates on the unmounted component.
C10_Witness ==
    /\ ~mounted
    /\ pc = "done"
    /\ staleUpdates = 3
    /\ report # Null
    /\ ~loading

====
